---------------------------- MODULE Spec2Model ----------------------------
(***************************************************************************)
(* A model of youtubemobile.py: the credential rotator (try_request), the  *)
(* SQLite upsert store (db_init, db_upsert_videos) and the session start   *)
(* that clears the store.                                                  *)
(*                                                                         *)
(* Python values are modelled as follows.                                  *)
(*   - None is the string NoneValue; a key missing from a dict is the      *)
(*     string Absent, and dict.get(k, d) is the operator Get.              *)
(*   - A datetime is [kind |-> "datetime", wall, utcoffset]: the wall      *)
(*     clock reading and the offset of its tzinfo, both in ticks of half   *)
(*     an hour.  A timestamp text is [kind |-> "str", fmt, wall]: the      *)
(*     layout of the text and the wall clock reading it prints.            *)
(*   - The videos table is the set of its rows.  Of its 18 columns the     *)
(*     model keeps videoId, publishedAt, views, likes, comments,           *)
(*     firstSeenSource, sourceKeyword and serial; title, channel,          *)
(*     channelId, category, duration, liveStatus, url, thumbnail,          *)
(*     sentiment and lastUpdated are written by the same two statements    *)
(*     with the overwrite rule of views and are left out.                  *)
(***************************************************************************)
EXTENDS Integers, Sequences, FiniteSets, TLC

VARIABLES
    tr_url,         \* try_request: the url of the last call
    tr_pattern,     \* try_request: what requests.get did for each key of that call
    tr_log,         \* try_request: the keys handed to requests.get, in call order
    tr_return,      \* try_request: the value the last call returned
    pc,             \* the script's position: "idle" between handlers, "returned"
                    \* when a handler has run and the rerun is still to come
    videos,         \* the committed rows of table videos
    rows,           \* db_upsert_videos: the rows argument of the last call
    result,         \* how the last store operation ended
    trace,          \* the UPDATE / INSERT statements the last call executed
    given,          \* history: <<serial, videoId of the first row that held it>>
    ys_pc,          \* youtube_search: "idle", "loop" (in the while loop) or "done"
    ys_query,       \* youtube_search: the query argument
    ids_with_keyword, \* youtube_search: the list accumulated and returned
    page_token,     \* youtube_search: the local page_token
    ys_calls,       \* youtube_search: try_request calls made, counted up to MaxCountedCalls
    ys_error,       \* youtube_search: TRUE when st.error reported a failed page
    ys_page,        \* youtube_search: the response to the last try_request call
    call,           \* the last call of a pure helper: its name, argument and return
    gvd_pc,         \* get_video_details: "idle" or "returned"
    video_objs,     \* get_video_details: the argument
    gvd_answers,    \* get_video_details: what the endpoint answered to each request
    gvd_requests,   \* get_video_details: the batch_ids of each try_request call
    gvd_errors,     \* get_video_details: the batches st.error reported
    results,        \* get_video_details: the list returned
    pinned_video_ids, \* st.session_state.pinned_video_ids
    pinned_inputs,  \* st.session_state.pinned_inputs, equal to the widget states
    last_click,     \* the last interaction with the pin controls
    watchlist_inputs, \* st.session_state.watchlist_inputs
    watchlist_file, \* the lines of WATCHLIST_FILE_PATH
    watch_click     \* the last interaction with the watch list

searchVars ==
    <<ys_pc, ys_query, ids_with_keyword, page_token, ys_calls, ys_error, ys_page>>

detailVars ==
    <<gvd_pc, video_objs, gvd_answers, gvd_requests, gvd_errors, results>>

pinVars == <<pinned_video_ids, pinned_inputs, last_click>>

watchVars == <<watchlist_inputs, watchlist_file, watch_click>>

laterVars == <<searchVars, call, detailVars, pinVars, watchVars>>

vars ==
    <<tr_url, tr_pattern, tr_log, tr_return, pc, videos, rows, result, trace,
      given, laterVars>>

rotatorVars == <<tr_url, tr_pattern, tr_log, tr_return>>
storeVars == <<pc, videos, rows, result, trace>>

-----------------------------------------------------------------------------
(* Bounds of the model *)

NumKeys == 3
NumVideoIds == 3
MaxBatch == 3
NumFieldIds == 2
MaxInstant == 2
MaxCountedCalls == 3

-----------------------------------------------------------------------------
(* Python values *)

NoneValue == "<None>"
Absent == "<absent>"

Get(d, k, default) == IF d[k] = Absent THEN default ELSE d[k]

Max(S) == CHOOSE x \in S : \A y \in S : y <= x

Range(s) == {s[i] : i \in 1..Len(s)}

-----------------------------------------------------------------------------
(* CONFIG *)

API_KEYS == [i \in 1..NumKeys |-> i]

YOUTUBE_SEARCH_URL == "search"
YOUTUBE_VIDEO_URL == "videos"
YOUTUBE_CHANNEL_URL == "channels"

CLEAR_ON_STARTUP == TRUE

IstOffset == 11

DefaultQueries == {"CISF", "#cisf"}

-----------------------------------------------------------------------------
(* Credential rotator: try_request *)

Urls == {YOUTUBE_SEARCH_URL, YOUTUBE_VIDEO_URL, YOUTUBE_CHANNEL_URL}

StatusCodes == {200, 403, 500}

(* What one requests.get call does: it returns an HTTP response with a     *)
(* status code, or it raises a requests.exceptions.RequestException.       *)
Outcomes ==
    {[kind |-> "http", status |-> s] : s \in StatusCodes}
        \cup {[kind |-> "RequestException", status |-> 0]}

Patterns == [1..Len(API_KEYS) -> Outcomes]

(* A requests.Response object.  content names the key whose request        *)
(* produced the body (for a synthesized response: the text of the          *)
(* exception that request raised).                                         *)
HttpResponse(key, status) ==
    [status_code |-> status, reason |-> "HTTP", content |-> key]

SynthesizedResponse(key) ==
    [status_code |-> 500, reason |-> "Request Exception", content |-> key]

NoResponse == [status_code |-> 0, reason |-> NoneValue, content |-> 0]

(* The except branch of try_request: the response that stands for a        *)
(* request that raised.                                                    *)
OnRequestExceptionKeepLast(last_response, key) == last_response

OnRequestException(last_response, key) == SynthesizedResponse(key)

(* The for loop of try_request from position i on: ret is the value        *)
(* returned, log the keys requests.get was called with.                    *)
RECURSIVE TryRequestLoop(_, _, _, _)
TryRequestLoopNoEarlyReturn(i, last_response, log, pattern) ==
    IF i > Len(API_KEYS)
    THEN [ret |-> last_response, log |-> log]
    ELSE LET key == API_KEYS[i]
             o == pattern[i]
             r == HttpResponse(key, o.status)
         IN  IF o.kind = "http"
             THEN TryRequestLoop(i + 1, r, Append(log, key), pattern)
             ELSE TryRequestLoop(i + 1, OnRequestException(last_response, key),
                                 Append(log, key), pattern)

TryRequestLoop(i, last_response, log, pattern) ==
    IF i > Len(API_KEYS)
    THEN [ret |-> last_response, log |-> log]
    ELSE LET key == API_KEYS[i]
             o == pattern[i]
             r == HttpResponse(key, o.status)
         IN  IF o.kind = "http"
             THEN IF r.status_code = 200
                  THEN [ret |-> r, log |-> Append(log, key)]
                  ELSE TryRequestLoop(i + 1, r, Append(log, key), pattern)
             ELSE TryRequestLoop(i + 1, OnRequestException(last_response, key),
                                 Append(log, key), pattern)

try_request(url, pattern) ==
    /\ tr_url' = url
    /\ tr_pattern' = pattern
    /\ LET out == TryRequestLoop(1, NoResponse, <<>>, pattern)
       IN  /\ tr_log' = out.log
           /\ tr_return' = out.ret

TryRequestCall ==
    /\ \E url \in Urls, pattern \in Patterns : try_request(url, pattern)
    /\ UNCHANGED <<storeVars, given, laterVars>>

-----------------------------------------------------------------------------
(* Time codec: to_sql_utc_string, ensure_sql_utc_string *)

Instants == 1..MaxInstant

Datetime(wall, utcoffset) ==
    [kind |-> "datetime", fmt |-> "", wall |-> wall, utcoffset |-> utcoffset]

Str(fmt, wall) ==
    [kind |-> "str", fmt |-> fmt, wall |-> wall, utcoffset |-> 0]

EmptyStr == Str("empty", 0)

NoneTime == [kind |-> "NoneType", fmt |-> "", wall |-> 0, utcoffset |-> 0]

AbsentTime == [kind |-> Absent, fmt |-> "", wall |-> 0, utcoffset |-> 0]

(* dt.astimezone(UTC): the same instant read on the UTC wall clock. *)
AsTimezoneUtc(dt) == Datetime(dt.wall - dt.utcoffset, 0)

(* strftime("%Y-%m-%d %H:%M:%S"): prints the wall clock of dt. *)
to_sql_utc_stringNoConversion(dt) == Str("sql", dt.wall)

to_sql_utc_string(dt) == Str("sql", AsTimezoneUtc(dt).wall)

(* strftime("%Y-%m-%dT%H:%M:%SZ") *)
to_rfc3339_z(dt) == Str("rfc3339", AsTimezoneUtc(dt).wall)

utcnow(now) == Datetime(now, 0)

ensure_sql_utc_stringReadsStringsAsIst(val, now) ==
    IF val.kind = "datetime" THEN to_sql_utc_string(val)
    ELSE IF val.kind = "str" /\ val # EmptyStr
         THEN to_sql_utc_string(Datetime(val.wall, IstOffset))
    ELSE to_sql_utc_string(utcnow(now))

ensure_sql_utc_string(val, now) ==
    IF val.kind = "datetime" THEN to_sql_utc_string(val)
    ELSE IF val.kind = "str" /\ val # EmptyStr THEN val
    ELSE to_sql_utc_string(utcnow(now))

-----------------------------------------------------------------------------
(* SQLite store: table videos *)

VideoIds == 1..NumVideoIds

(* r.get("publishedAt"): None when the key is missing. *)
GetPublishedAt(r) ==
    IF r.publishedAt.kind = Absent THEN NoneTime ELSE r.publishedAt

(* int(r.get(k, 0) or 0).  Every record carries its counts as integers    *)
(* (get_video_details builds them with int(...)), and on an integer n      *)
(* the expression is n: n or 0 is 0 exactly when n is 0.                   *)
IntOr0(r, k) == IF r[k] = 0 THEN 0 ELSE r[k]

(* COALESCE(a, b) *)
COALESCEIncomingFirst(a, b) == IF b # NoneValue THEN b ELSE a

COALESCE(a, b) == IF a # NoneValue THEN a ELSE b

(* SELECT videoId FROM videos WHERE videoId IN (...) *)
SelectExistingIds(table, video_ids) ==
    {row.videoId : row \in {x \in table : x.videoId \in video_ids}}

(* SELECT COALESCE(MAX(serial), 0) FROM videos *)
SelectMaxSerialCoalesceOne(table) ==
    IF table = {} THEN 1 ELSE Max({row.serial : row \in table})

SelectMaxSerial(table) ==
    IF table = {} THEN 0 ELSE Max({row.serial : row \in table})

(* UPDATE videos SET ... WHERE videoId=? *)
SqlUpdateOverwritesProvenance(table, r, now) ==
    {IF row.videoId = r.videoId
     THEN [row EXCEPT
             !.publishedAt = ensure_sql_utc_string(GetPublishedAt(r), now),
             !.views = IntOr0(r, "views"),
             !.likes = IntOr0(r, "likes"),
             !.comments = IntOr0(r, "comments"),
             !.firstSeenSource = Get(r, "sourceKeyword", "pull"),
             !.sourceKeyword =
                 COALESCE(row.sourceKeyword, Get(r, "sourceKeyword", NoneValue))]
     ELSE row : row \in table}

SqlUpdate(table, r, now) ==
    {IF row.videoId = r.videoId
     THEN [row EXCEPT
             !.publishedAt = ensure_sql_utc_string(GetPublishedAt(r), now),
             !.views = IntOr0(r, "views"),
             !.likes = IntOr0(r, "likes"),
             !.comments = IntOr0(r, "comments"),
             !.sourceKeyword =
                 COALESCE(row.sourceKeyword, Get(r, "sourceKeyword", NoneValue))]
     ELSE row : row \in table}

(* The row the INSERT statement of db_upsert_videos writes. *)
NewRow(r, serial, now) ==
    [videoId |-> r.videoId,
     publishedAt |-> ensure_sql_utc_string(GetPublishedAt(r), now),
     views |-> IntOr0(r, "views"),
     likes |-> IntOr0(r, "likes"),
     comments |-> IntOr0(r, "comments"),
     firstSeenSource |-> Get(r, "sourceKeyword", "pull"),
     sourceKeyword |-> Get(r, "sourceKeyword", NoneValue),
     serial |-> serial]

(* The constraints of db_init: videoId TEXT PRIMARY KEY, serial INTEGER    *)
(* UNIQUE.  TRUE when the row may be inserted.                             *)
ConstraintsAdmitNoPrimaryKey(table, new) ==
    \A row \in table : row.serial # new.serial

ConstraintsAdmit(table, new) ==
    /\ \A row \in table : row.videoId # new.videoId
    /\ \A row \in table : row.serial # new.serial

(* The for loop of db_upsert_videos over the records rs, on the            *)
(* uncommitted table cur; log is the statements executed so far.           *)
RECURSIVE UpsertLoop(_, _, _, _, _)
UpsertLoop(cur, existing_ids, rs, now, log) ==
    IF rs = <<>>
    THEN [table |-> cur, raised |-> NoneValue, log |-> log]
    ELSE LET r == Head(rs)
             vid == r.videoId
         IN  IF vid \in existing_ids
             THEN UpsertLoop(SqlUpdate(cur, r, now), existing_ids, Tail(rs),
                             now, Append(log, <<"UPDATE", vid>>))
             ELSE LET serial == SelectMaxSerial(cur) + 1
                      new == NewRow(r, serial, now)
                  IN  IF ConstraintsAdmit(cur, new)
                      THEN UpsertLoop(cur \cup {new}, existing_ids, Tail(rs),
                                      now, Append(log, <<"INSERT", vid>>))
                      ELSE [table |-> cur, raised |-> "IntegrityError",
                            log |-> Append(log, <<"INSERT", vid>>)]

(* db_upsert_videos(conn, rs) at time now.  conn.commit() is reached only  *)
(* when no statement raised; otherwise the exception leaves the function   *)
(* and the transaction is rolled back when the connection is dropped.      *)
DbUpsertVideos(table, rs, now) ==
    LET video_ids == [i \in 1..Len(rs) |-> rs[i].videoId]
        existing_ids == SelectExistingIds(table, Range(video_ids))
        out == UpsertLoop(table, existing_ids, rs, now, <<>>)
    IN  [table |-> IF out.raised = NoneValue THEN out.table ELSE table,
         raised |-> out.raised,
         log |-> out.log]

db_upsert_videos(rs, now) ==
    LET out == DbUpsertVideos(videos, rs, now)
    IN  /\ pc = "idle"
        /\ pc' = "returned"
        /\ videos' = out.table
        /\ rows' = rs
        /\ result' = IF out.raised = NoneValue THEN "committed" ELSE out.raised
        /\ trace' = out.log

(* Session start: "started" is not in st.session_state, so db_init runs    *)
(* and, with CLEAR_ON_STARTUP, DELETE FROM videos.                         *)
session_initialization ==
    /\ pc = "idle"
    /\ pc' = "returned"
    /\ videos' = IF CLEAR_ON_STARTUP THEN {} ELSE videos
    /\ rows' = <<>>
    /\ result' = "started"
    /\ trace' = IF CLEAR_ON_STARTUP THEN <<<<"DELETE", 0>>>> ELSE <<>>

(* st.rerun(), or the next interaction after a handler raised: the script  *)
(* starts over, the handler's locals are gone and the table is read from   *)
(* a new connection.                                                       *)
rerun ==
    /\ pc = "returned"
    /\ pc' = "idle"
    /\ rows' = <<>>
    /\ result' = "idle"
    /\ trace' = <<>>
    /\ UNCHANGED videos

-----------------------------------------------------------------------------
(* Duration codec: parse_duration_iso8601 *)

(* A str is the sequence of its characters; None is NoneStr. *)
NoneStr == <<"<None>">>

Digits == <<"0", "1", "2", "3", "4", "5", "6", "7", "8", "9">>

(* \d *)
IsDigit(c) == \E d \in 1..Len(Digits) : Digits[d] = c

DigitValue(c) == (CHOOSE d \in 1..Len(Digits) : Digits[d] = c) - 1

(* int(text) of a run of digits *)
RECURSIVE IntOfDigits(_)
IntOfDigits(text) ==
    IF text = <<>> THEN 0
    ELSE 10 * IntOfDigits(SubSeq(text, 1, Len(text) - 1)) + DigitValue(text[Len(text)])

(* \d+ at position i: the position after the longest run of digits. *)
RECURSIVE EndOfDigits(_, _)
EndOfDigits(text, i) ==
    IF i <= Len(text) /\ IsDigit(text[i]) THEN EndOfDigits(text, i + 1) ELSE i

(* (?:(\d+)X)? at position i: the group's text (None when it did not      *)
(* take part) and the position where the match continues.                  *)
OptionalComponent(text, i, unit) ==
    LET j == EndOfDigits(text, i)
    IN  IF j > i /\ j <= Len(text) /\ text[j] = unit
        THEN [group |-> SubSeq(text, i, j - 1), next |-> j + 1]
        ELSE [group |-> NoneStr, next |-> i]

(* $ without re.MULTILINE: at the end of the text, or before a newline     *)
(* that is its last character.                                             *)
Dollar(text, i) ==
    \/ i = Len(text) + 1
    \/ i = Len(text) /\ text[i] = "\n"

(* int(m.group(n) or 0) *)
IntOrZero(group) == IF group = NoneStr THEN 0 ELSE IntOfDigits(group)

(* re.match(r"^PT(?:(\d+)H)?(?:(\d+)M)?(?:(\d+)S)?$", duration or "") *)
parse_duration_iso8601(duration) ==
    LET text == IF duration = NoneStr THEN <<>> ELSE duration
        h == OptionalComponent(text, 3, "H")
        m_ == OptionalComponent(text, h.next, "M")
        s == OptionalComponent(text, m_.next, "S")
    IN  IF /\ Len(text) >= 2
           /\ text[1] = "P"
           /\ text[2] = "T"
           /\ Dollar(text, s.next)
        THEN IntOrZero(h.group) * 3600 + IntOrZero(m_.group) * 60 + IntOrZero(s.group)
        ELSE 0

SHORTS_MAX_DURATION == 60

-----------------------------------------------------------------------------
(* Sentiment heuristic: simulate_sentiment_analysis *)

(* likes / (comments + 1), kept as the exact quotient <<num, den>>. *)
Ratio(likes, comments) == <<likes, comments + 1>>

RatioAbove(q, k) == q[1] > k * q[2]

RatioBelow(q, k) == q[1] < k * q[2]

simulate_sentiment_analysisInclusiveBounds(likes, comments) ==
    IF likes = 0 /\ comments = 0 THEN "Neutral"
    ELSE IF ~RatioBelow(Ratio(likes, comments), 10) THEN "Positive"
    ELSE IF ~RatioAbove(Ratio(likes, comments), 1) THEN "Negative"
    ELSE "Neutral"

simulate_sentiment_analysis(likes, comments) ==
    IF likes = 0 /\ comments = 0 THEN "Neutral"
    ELSE IF RatioAbove(Ratio(likes, comments), 10) THEN "Positive"
    ELSE IF RatioBelow(Ratio(likes, comments), 1) THEN "Negative"
    ELSE "Neutral"

-----------------------------------------------------------------------------
(* Metadata fetcher: youtube_search *)

(* params["maxResults"] *)
MaxResults == 50

(* What try_request meets when it is called for one page or batch: every   *)
(* key answers 200, every key answers 403, only the last key answers 200,  *)
(* or every request raises.                                                *)
FetchPatterns ==
    {[i \in 1..Len(API_KEYS) |-> [kind |-> "http", status |-> 200]],
     [i \in 1..Len(API_KEYS) |-> [kind |-> "http", status |-> 403]],
     [i \in 1..Len(API_KEYS) |->
         [kind |-> "http", status |-> IF i = Len(API_KEYS) THEN 200 ELSE 403]],
     [i \in 1..Len(API_KEYS) |-> [kind |-> "RequestException", status |-> 0]]}

(* if not r or r.status_code != 200 *)
RequestFailed(r) == r = NoResponse \/ r.status_code # 200

(* The items of a search page: n items, videos numbered from 1; when       *)
(* mixed, the first item is a result whose id carries no videoId.          *)
SearchItems(n, mixed) ==
    [j \in 1..n |->
        IF mixed /\ j = 1
        THEN [kind |-> "youtube#channel", videoId |-> 0]
        ELSE [kind |-> "youtube#video", videoId |-> IF mixed THEN j - 1 ELSE j]]

PageSizes == {0, 10, 49, 50}

PageTokens == {"T1", "T2"}

(* r.json() of a search response that try_request returned with 200. *)
SearchData ==
    {[items |-> SearchItems(n, mixed), nextPageToken |-> t] :
        n \in PageSizes, mixed \in BOOLEAN, t \in PageTokens \cup {NoneValue}}

NoData == [items |-> <<>>, nextPageToken |-> NoneValue]

NoPage == [pattern |-> <<>>, data |-> NoData]

(* What the search endpoint does for one try_request call. *)
SearchResponses ==
    {[pattern |-> pt, data |-> d] :
        pt \in {x \in FetchPatterns : \E i \in 1..Len(x) : x[i].status = 200},
        d \in SearchData}
    \cup
    {[pattern |-> pt, data |-> NoData] :
        pt \in {x \in FetchPatterns : \A i \in 1..Len(x) : x[i].status # 200}}

(* for item in data.get("items", []): if "videoId" in item.get("id", {}):  *)
(*     ids_with_keyword.append({"videoId": ..., "sourceKeyword": query})   *)
RECURSIVE AppendVideoIds(_, _, _)
AppendVideoIds(ids, items, query) ==
    IF items = <<>> THEN ids
    ELSE LET item == Head(items)
         IN  AppendVideoIds(
                 IF item.kind = "youtube#video"
                 THEN Append(ids, [videoId |-> item.videoId, sourceKeyword |-> query])
                 ELSE ids,
                 Tail(items), query)

(* The list youtube_search returns when a page fails: break leaves the     *)
(* loop with what was accumulated.                                         *)
OnSearchFailureDropsPartial(ids) == <<>>

OnSearchFailure(ids) == ids

(* if not page_token or len(ids_with_keyword) >= params.get("maxResults", 50): break *)
SearchStopsStrictlyAbove(token, ids) ==
    token = NoneValue \/ Len(ids) > MaxResults

SearchStops(token, ids) ==
    token = NoneValue \/ Len(ids) >= MaxResults

CountCall(n) == IF n < MaxCountedCalls THEN n + 1 ELSE n

(* youtube_search(query) up to the while loop. *)
youtube_search_enter(query) ==
    /\ ys_pc \in {"idle", "done"}
    /\ ys_pc' = "loop"
    /\ ys_query' = query
    /\ ids_with_keyword' = <<>>
    /\ page_token' = NoneValue
    /\ ys_calls' = 0
    /\ ys_error' = FALSE
    /\ ys_page' = NoPage

(* One iteration of the while loop, the endpoint answering with resp. *)
youtube_search_page(resp) ==
    LET r == TryRequestLoop(1, NoResponse, <<>>, resp.pattern).ret
        ids == AppendVideoIds(ids_with_keyword, resp.data.items, ys_query)
        token == resp.data.nextPageToken
    IN  /\ ys_pc = "loop"
        /\ ys_page' = resp
        /\ ys_calls' = CountCall(ys_calls)
        /\ ys_query' = ys_query
        /\ IF RequestFailed(r)
           THEN /\ ys_error' = TRUE
                /\ ids_with_keyword' = OnSearchFailure(ids_with_keyword)
                /\ page_token' = page_token
                /\ ys_pc' = "done"
           ELSE /\ ys_error' = ys_error
                /\ ids_with_keyword' = ids
                /\ page_token' = token
                /\ ys_pc' = IF SearchStops(token, ids) THEN "done" ELSE "loop"

-----------------------------------------------------------------------------
(* Arguments of the pure helpers *)

NoCall == [fn |-> "none"]

NumberTexts == {<<"0">>, <<"5">>, <<"1", "2">>}

(* [nX], absent or a number followed by the unit. *)
ComponentTexts(unit) == {<<>>} \cup {n \o <<unit>> : n \in NumberTexts}

(* PT[nH][nM][nS] and the same components in the other orders. *)
UnitOrders ==
    {<<"H", "M", "S">>, <<"M", "H", "S">>, <<"H", "S", "M">>, <<"S", "M", "H">>}

CodesInOrder(units) ==
    {<<"P", "T">> \o a \o b \o c :
        a \in ComponentTexts(units[1]),
        b \in ComponentTexts(units[2]),
        c \in ComponentTexts(units[3])}

DurationCodes == CodesInOrder(<<"H", "M", "S">>)

EditChars == {"P", "T", "H", "M", "S", "D", "W", "1", ".", "-", "+", " ", "\n"}

(* A text one edit away from text: a character inserted, a character     *)
(* removed, or two neighbours exchanged.                                   *)
Edits(text) ==
    {SubSeq(text, 1, i - 1) \o <<c>> \o SubSeq(text, i, Len(text)) :
        i \in 1..(Len(text) + 1), c \in EditChars}
    \cup
    {SubSeq(text, 1, i - 1) \o SubSeq(text, i + 1, Len(text)) : i \in 1..Len(text)}
    \cup
    {SubSeq(text, 1, i - 1) \o <<text[i + 1], text[i]>> \o SubSeq(text, i + 2, Len(text)) :
        i \in 1..(Len(text) - 1)}

(* Durations with a day or a week component. *)
DayAndWeekCodes ==
    {<<"P", "1", "D">> \o SubSeq(code, 2, Len(code)) : code \in DurationCodes}
    \cup {<<"P", "1", "W">>, <<"P", "1", "D">>}

DurationArguments ==
    {NoneStr, <<>>}
    \cup UNION {CodesInOrder(units) : units \in UnitOrders}
    \cup UNION {Edits(code) : code \in DurationCodes}
    \cup DayAndWeekCodes

MaxLikes == 110
MaxComments == 10

MaxTick == 23

(* Values handed to ensure_sql_utc_string: datetimes in UTC and in IST,    *)
(* strings in the two formats the program prints, the empty string, None.  *)
TimestampArguments ==
    {Datetime(w, off) : w \in 0..MaxTick, off \in {0, IstOffset}}
    \cup {Str(fmt, w) : fmt \in {"sql", "rfc3339"}, w \in 0..MaxTick}
    \cup {EmptyStr, NoneTime}

-----------------------------------------------------------------------------
(* The records handed to db_upsert_videos *)

(* The counts of a video after n units of engagement. *)
EngagementLevels == {0, 1}

Stats(n) == [views |-> 3 * n, likes |-> 2 * n, comments |-> n]

Rec(v, p, n, k) ==
    [videoId |-> v, publishedAt |-> p,
     views |-> Stats(n).views, likes |-> Stats(n).likes,
     comments |-> Stats(n).comments, sourceKeyword |-> k]

KeywordInputs == DefaultQueries \cup {NoneValue, Absent}

PublishedInputs ==
    {Datetime(t, 0) : t \in Instants}
        \cup {Datetime(t + IstOffset, IstOffset) : t \in Instants}
        \cup {Str("sql", t) : t \in Instants}
        \cup {Str("rfc3339", t) : t \in Instants}
        \cup {NoneTime, AbsentTime, EmptyStr}

(* What get_video_details passes through for a video found by the first    *)
(* default query: the API's RFC3339 publishedAt, the query as keyword.     *)
DefaultPublished == Str("rfc3339", 1)
DefaultKeyword == "CISF"

FieldIds == 1..NumFieldIds

StoreRecords ==
    {Rec(v, DefaultPublished, 0, DefaultKeyword) : v \in VideoIds}

ProvenanceRecords ==
    {Rec(v, DefaultPublished, n, k) :
        v \in FieldIds, n \in EngagementLevels, k \in KeywordInputs}

PublishedRecords ==
    {Rec(v, p, 0, DefaultKeyword) : v \in FieldIds, p \in PublishedInputs}

Batches(S, n) == UNION {[1..k -> S] : k \in 1..n}

-----------------------------------------------------------------------------
(* Metadata fetcher: get_video_details *)

(* chunked(video_ids, 50) *)
ChunkSize == 50

(* for i in range(0, len(iterable), n): yield iterable[i:i + n] *)
RECURSIVE chunked(_, _)
chunked(iterable, n) ==
    IF iterable = <<>> THEN <<>>
    ELSE IF Len(iterable) <= n THEN <<iterable>>
    ELSE <<SubSeq(iterable, 1, n)>> \o chunked(SubSeq(iterable, n + 1, Len(iterable)), n)

AbsentStr == <<"<absent>">>

(* The item the videos endpoint holds for a videoId: its statistics,       *)
(* duration and live details vary with the id.                             *)
VideoItem(v) ==
    [id |-> v,
     publishedAt |-> Str("rfc3339", 1),
     viewCount |-> 3 * (v % 5),
     likeCount |-> 12 * (v % 3),
     commentCount |-> v % 2,
     duration |-> CASE v % 4 = 0 -> AbsentStr
                    [] v % 4 = 1 -> <<"P", "T", "1", "M">>
                    [] v % 4 = 2 -> <<"P", "T", "1", "M", "1", "S">>
                    [] OTHER -> <<"P", "1", "D">>,
     live |-> CASE v % 3 = 0 -> "actualStartTime"
                [] v % 3 = 1 -> "scheduledStartTime"
                [] OTHER -> Absent]

(* Which of the requested ids the endpoint has an item for. *)
Availabilities == {"all", "odd", "none"}

Available(v, availability) ==
    CASE availability = "all" -> TRUE
      [] availability = "odd" -> v % 2 = 1
      [] OTHER -> FALSE

(* What the videos endpoint does for one try_request call. *)
DetailAnswers ==
    {[pattern |-> pt, availability |-> a] :
        pt \in {x \in FetchPatterns : \E i \in 1..Len(x) : x[i].status = 200},
        a \in Availabilities}
    \cup
    {[pattern |-> pt, availability |-> "none"] :
        pt \in {x \in FetchPatterns : \A i \in 1..Len(x) : x[i].status # 200}}

(* data.get("items", []) of the answer to a request for batch_ids *)
DetailItems(batch_ids, answer) ==
    LET found == SelectSeq(batch_ids, LAMBDA v : Available(v, answer.availability))
    IN  [i \in 1..Len(found) |-> VideoItem(found[i])]

(* source_keywords = {v['videoId']: v.get('sourceKeyword') for v in video_objs} *)
SourceKeywords(objs) ==
    [v \in {objs[i].videoId : i \in 1..Len(objs)} |->
        LET last == Max({i \in 1..Len(objs) : objs[i].videoId = v})
        IN  IF objs[last].sourceKeyword = Absent THEN NoneValue
            ELSE objs[last].sourceKeyword]

(* The record appended to results for one item. *)
MapItem(item, source_keywords) ==
    LET duration == parse_duration_iso8601(
                        IF item.duration = AbsentStr
                        THEN <<"P", "T", "0", "S">>
                        ELSE item.duration)
    IN  [videoId |-> item.id,
         publishedAt |-> item.publishedAt,
         views |-> item.viewCount,
         likes |-> item.likeCount,
         comments |-> item.commentCount,
         category |-> IF duration <= SHORTS_MAX_DURATION THEN "Short" ELSE "Video",
         duration |-> duration,
         liveStatus |-> IF item.live = "actualStartTime" THEN "LIVE"
                        ELSE IF item.live = "scheduledStartTime" THEN "UPCOMING"
                        ELSE "NORMAL",
         sourceKeyword |-> IF item.id \in DOMAIN source_keywords
                           THEN source_keywords[item.id]
                           ELSE NoneValue,
         sentiment |-> simulate_sentiment_analysis(item.likeCount, item.commentCount)]

(* The for loop over the batches: k is the batch reached, out the          *)
(* requests made, the batches reported as failed and the results so far.   *)
RECURSIVE DetailsLoopBreaksOnFailure(_, _, _, _, _)
DetailsLoopBreaksOnFailure(batches, k, answers, source_keywords, out) ==
    IF k > Len(batches) THEN out
    ELSE LET batch_ids == batches[k]
             r == TryRequestLoop(1, NoResponse, <<>>, answers[k].pattern).ret
             items == DetailItems(batch_ids, answers[k])
             requested == Append(out.requests, batch_ids)
         IN  IF RequestFailed(r)
             THEN [requests |-> requested,
                   errors |-> Append(out.errors, k),
                   results |-> out.results]
             ELSE DetailsLoopBreaksOnFailure(batches, k + 1, answers, source_keywords,
                      [requests |-> requested,
                       errors |-> out.errors,
                       results |-> out.results \o
                           [i \in 1..Len(items) |-> MapItem(items[i], source_keywords)]])

RECURSIVE DetailsLoop(_, _, _, _, _)
DetailsLoop(batches, k, answers, source_keywords, out) ==
    IF k > Len(batches) THEN out
    ELSE LET batch_ids == batches[k]
             r == TryRequestLoop(1, NoResponse, <<>>, answers[k].pattern).ret
             items == DetailItems(batch_ids, answers[k])
             requested == Append(out.requests, batch_ids)
         IN  IF RequestFailed(r)
             THEN DetailsLoop(batches, k + 1, answers, source_keywords,
                      [requests |-> requested,
                       errors |-> Append(out.errors, k),
                       results |-> out.results])
             ELSE DetailsLoop(batches, k + 1, answers, source_keywords,
                      [requests |-> requested,
                       errors |-> out.errors,
                       results |-> out.results \o
                           [i \in 1..Len(items) |-> MapItem(items[i], source_keywords)]])

(* get_video_details(video_objs), the endpoint answering the k-th request  *)
(* with answers[k].                                                        *)
get_video_details(objs, answers) ==
    LET video_ids == [i \in 1..Len(objs) |-> objs[i].videoId]
    IN  /\ gvd_pc = "idle"
        /\ gvd_pc' = "returned"
        /\ video_objs' = objs
        /\ gvd_answers' = answers
        /\ \E out \in {DetailsLoop(chunked(video_ids, ChunkSize), 1, answers,
                                   SourceKeywords(objs),
                                   [requests |-> <<>>, errors |-> <<>>,
                                    results |-> <<>>])} :
              /\ gvd_requests' = out.requests
              /\ gvd_errors' = out.errors
              /\ results' = out.results

(* The lists get_video_details is called with: n videoIds, ascending or    *)
(* descending, tagged with a keyword (from youtube_search) or without one  *)
(* (the pinned ids).                                                       *)
DetailLengths == {0, 1, 49, 50, 51, 100, 101}

VideoObjs ==
    {[i \in 1..n |-> [videoId |-> i, sourceKeyword |-> DefaultKeyword]] :
        n \in DetailLengths}
    \cup
    {[i \in 1..n |-> [videoId |-> n + 1 - i, sourceKeyword |-> Absent]] :
        n \in DetailLengths}

-----------------------------------------------------------------------------
(* Pinned videos: the Pin and Unpin buttons, the Pinned Video inputs *)

MaxPinnedInputs == 3

(* What a Pinned Video input holds: nothing, a bare 11-character videoId,  *)
(* a URL with the videoId after "v=" or "/", or a text that is neither.    *)
EmptyText == [form |-> "empty", id |-> 0]

PinTexts ==
    {EmptyText, [form |-> "other", id |-> 0]}
    \cup {[form |-> f, id |-> v] : f \in {"id", "url"}, v \in VideoIds}

(* m = re.search(r"(?:v=|/)([a-zA-Z0-9_-]{11})", part); m.group(1) if m,   *)
(* else part if len(part) == 11; 0 stands for video_id_to_add = None.      *)
VideoIdToAdd(part) ==
    IF part.form = "url" THEN part.id
    ELSE IF part.form = "id" THEN part.id
    ELSE 0

(* The Settings expander, run with the widget states new_values: an empty  *)
(* input is appended (and the script rerun) when the last one is filled.   *)
SyncPinnedInputs(new_values) ==
    IF new_values[Len(new_values)] # EmptyText
    THEN Append(new_values, EmptyText)
    ELSE new_values

(* Pin consolidation: manual_pins = set(pinned_video_ids) plus the id of   *)
(* every non-empty input.  pinned_video_ids is kept as the set of its      *)
(* elements: list(manual_pins) has no duplicates and no defined order.     *)
ConsolidatePins(pinned, inputs) ==
    pinned \cup {VideoIdToAdd(inputs[i]) :
                    i \in {j \in 1..Len(inputs) :
                              /\ inputs[j] # EmptyText
                              /\ VideoIdToAdd(inputs[j]) # 0}}

(* One script run after an interaction that left the session with the     *)
(* pinned ids pinned and the widget states new_values.                     *)
ScriptRun(pinned, new_values) ==
    /\ pinned_inputs' = SyncPinnedInputs(new_values)
    /\ pinned_video_ids' = ConsolidatePins(pinned, SyncPinnedInputs(new_values))

(* The operator edits Pinned Video input i. *)
edit_pinned_input(i, text) ==
    /\ i \in 1..Len(pinned_inputs)
    /\ text # pinned_inputs[i]
    /\ Len(SyncPinnedInputs([pinned_inputs EXCEPT ![i] = text])) <= MaxPinnedInputs
    /\ ScriptRun(pinned_video_ids, [pinned_inputs EXCEPT ![i] = text])
    /\ last_click' = [button |-> "input", videoId |-> VideoIdToAdd(text)]

(* render_video_card, is_pinned_view = False: the Pin / Pinned button of   *)
(* the card of video_id, then st.rerun().                                  *)
click_pin(video_id) ==
    /\ ScriptRun(IF video_id \in pinned_video_ids
                 THEN pinned_video_ids \ {video_id}
                 ELSE pinned_video_ids \cup {video_id},
                 pinned_inputs)
    /\ last_click' = [button |-> "Pin", videoId |-> video_id]

(* render_video_card, is_pinned_view = True: the Unpin button of the card  *)
(* of a pinned video_id, then st.rerun().                                  *)
click_unpin(video_id) ==
    /\ video_id \in pinned_video_ids
    /\ ScriptRun(pinned_video_ids \ {video_id}, pinned_inputs)
    /\ last_click' = [button |-> "Unpin", videoId |-> video_id]

-----------------------------------------------------------------------------
(* Watch list: the watchlist file, the Add and Remove buttons *)

NumChannels == 2
MaxWatchEntries == 3

ChannelIds == 1..NumChannels

(* What a watch-list entry holds: nothing, a bare channel ID (UC and 22    *)
(* characters), a channel URL containing the ID, an @handle (id is the     *)
(* channel the search endpoint resolves it to, 0 when it finds none), or   *)
(* a text that is none of these.                                           *)
EmptyEntry == [form |-> "empty", id |-> 0]

WatchEntries ==
    {[form |-> "other", id |-> 0], [form |-> "handle", id |-> 0]}
    \cup {[form |-> f, id |-> c] : f \in {"id", "url", "handle"}, c \in ChannelIds}

(* get_channel_id_from_handle(handle); 0 stands for None. *)
get_channel_id_from_handle(entry) == entry.id

(* Watch list entry parsing: the channel ID added to watchlist_ids for an  *)
(* entry, 0 when the entry goes to unparsed_entries.                       *)
WatchlistId(entry) ==
    IF entry.form \in {"id", "url"} THEN entry.id
    ELSE IF entry.form = "handle" THEN get_channel_id_from_handle(entry)
    ELSE 0

(* watchlist_ids of the Watch List tab *)
WatchlistIds(entries) ==
    {WatchlistId(entries[i]) :
        i \in {j \in 1..Len(entries) :
                  entries[j] # EmptyEntry /\ WatchlistId(entries[j]) # 0}}

(* entry_s == channel_id_to_remove or channel_id_to_remove in entry_s:     *)
(* the 24 characters of the ID are the entry or occur in it.               *)
MatchesId(entry, channel_id) ==
    entry.form \in {"id", "url"} /\ entry.id = channel_id

(* The lines written to WATCHLIST_FILE_PATH: the non-empty entries. *)
WrittenFile(entries) == SelectSeq(entries, LAMBDA e : e # EmptyEntry)

(* Session start: watchlist_inputs is the non-empty lines of the file, or  *)
(* [""] without them, with an empty entry appended when the last is not    *)
(* empty.                                                                  *)
load_watchlist(file) ==
    LET saved_watchlist == WrittenFile(file)
        initial_watchlist ==
            IF saved_watchlist # <<>> THEN saved_watchlist ELSE <<EmptyEntry>>
    IN  /\ watchlist_file' = file
        /\ watchlist_inputs' =
              IF initial_watchlist[Len(initial_watchlist)] # EmptyEntry
              THEN Append(initial_watchlist, EmptyEntry)
              ELSE initial_watchlist
        /\ watch_click' = [button |-> "start", channelId |-> 0]

(* render_video_card: the Add button of a card whose channel is not in     *)
(* watchlist_inputs as a bare ID; the ID goes into the first empty slot.   *)
click_add_to_watchlist(channel_id) ==
    LET bare == [form |-> "id", id |-> channel_id]
        empty_slots == {i \in 1..Len(watchlist_inputs) : watchlist_inputs[i] = EmptyEntry}
        empty_slot_index == CHOOSE i \in empty_slots : \A j \in empty_slots : i <= j
        filled ==
            IF empty_slots # {}
            THEN [watchlist_inputs EXCEPT ![empty_slot_index] = bare]
            ELSE SubSeq(watchlist_inputs, 1, Len(watchlist_inputs) - 1)
                 \o <<bare, watchlist_inputs[Len(watchlist_inputs)]>>
        new_watchlist ==
            IF filled[Len(filled)] # EmptyEntry THEN Append(filled, EmptyEntry) ELSE filled
    IN  /\ \A i \in 1..Len(watchlist_inputs) : watchlist_inputs[i] # bare
        /\ Len(new_watchlist) <= MaxWatchEntries + 1
        /\ watchlist_inputs' = new_watchlist
        /\ watchlist_file' = WrittenFile(new_watchlist)
        /\ watch_click' = [button |-> "Add", channelId |-> channel_id]

(* Watch List tab: the Remove button of a channel the tab shows; the       *)
(* entries that match the ID are dropped, the list is saved and the        *)
(* script reruns.                                                          *)
click_remove_from_watchlist(channel_id_to_remove) ==
    LET kept == SelectSeq(watchlist_inputs,
                          LAMBDA e : ~MatchesId(e, channel_id_to_remove))
        new_watchlist ==
            IF \A i \in 1..Len(kept) : kept[i] # EmptyEntry
            THEN Append(kept, EmptyEntry)
            ELSE kept
    IN  /\ channel_id_to_remove \in WatchlistIds(watchlist_inputs)
        /\ watchlist_inputs' = new_watchlist
        /\ watchlist_file' = WrittenFile(new_watchlist)
        /\ watch_click' = [button |-> "Remove", channelId |-> channel_id_to_remove]

(* The watchlist files a session starts with. *)
WatchlistFiles == UNION {[1..n -> WatchEntries] : n \in 0..MaxWatchEntries}

-----------------------------------------------------------------------------
(* Specifications *)

Init ==
    /\ tr_url = ""
    /\ tr_pattern = <<>>
    /\ tr_log = <<>>
    /\ tr_return = NoResponse
    /\ pc = "idle"
    /\ videos = {}
    /\ rows = <<>>
    /\ result = "idle"
    /\ trace = <<>>
    /\ given = {}
    /\ ys_pc = "idle"
    /\ ys_query = ""
    /\ ids_with_keyword = <<>>
    /\ page_token = NoneValue
    /\ ys_calls = 0
    /\ ys_error = FALSE
    /\ ys_page = NoPage
    /\ call = NoCall
    /\ gvd_pc = "idle"
    /\ video_objs = <<>>
    /\ gvd_answers = <<>>
    /\ gvd_requests = <<>>
    /\ gvd_errors = <<>>
    /\ results = <<>>
    /\ pinned_video_ids = {}
    /\ pinned_inputs = <<EmptyText>>
    /\ last_click = [button |-> "none", videoId |-> 0]
    /\ watchlist_inputs = <<EmptyEntry>>
    /\ watchlist_file = <<>>
    /\ watch_click = [button |-> "none", channelId |-> 0]

(* The credential rotator under every pattern of outcomes. *)
NextRotator == TryRequestCall

SpecRotator == Init /\ [][NextRotator]_vars

(* The store under batches of records that differ in their videoId. *)
StoreUpsert ==
    /\ \E rs \in Batches(StoreRecords, MaxBatch) : db_upsert_videos(rs, 1)
    /\ UNCHANGED <<rotatorVars, given, laterVars>>

SessionStart ==
    /\ session_initialization
    /\ UNCHANGED <<rotatorVars, given, laterVars>>

Rerun ==
    /\ rerun
    /\ UNCHANGED <<rotatorVars, given, laterVars>>

NextStore == StoreUpsert \/ SessionStart \/ Rerun

SpecStore == Init /\ [][NextStore]_vars

(* The store of SpecStore with the history of the serials it gave out:     *)
(* given holds, for every serial a row ever held, the videoId of the       *)
(* first row that held it.                                                 *)
Given(table) ==
    {<<row.serial, row.videoId>> :
        row \in {x \in table : \A g \in given : g[1] # x.serial}}

StoreUpsertTracked ==
    /\ \E rs \in Batches(StoreRecords, MaxBatch) : db_upsert_videos(rs, 1)
    /\ given' = given \cup Given(videos')
    /\ UNCHANGED <<rotatorVars, laterVars>>

SessionStartTracked ==
    /\ session_initialization
    /\ UNCHANGED <<rotatorVars, given, laterVars>>

RerunTracked ==
    /\ rerun
    /\ UNCHANGED <<rotatorVars, given, laterVars>>

NextSerialHistory == StoreUpsertTracked \/ SessionStartTracked \/ RerunTracked

SpecSerialHistory == Init /\ [][NextSerialHistory]_vars

(* The store under single records that differ in counts and keyword. *)
ProvenanceUpsert ==
    /\ \E r \in ProvenanceRecords : db_upsert_videos(<<r>>, 1)
    /\ UNCHANGED <<rotatorVars, given, laterVars>>

NextProvenance == ProvenanceUpsert \/ SessionStart \/ Rerun

SpecProvenance == Init /\ [][NextProvenance]_vars

(* The store under single records that differ in publishedAt. *)
PublishedUpsert ==
    /\ \E r \in PublishedRecords, now \in Instants :
           db_upsert_videos(<<r>>, now)
    /\ UNCHANGED <<rotatorVars, given, laterVars>>

NextPublished == PublishedUpsert \/ SessionStart \/ Rerun

SpecPublished == Init /\ [][NextPublished]_vars

(* youtube_search, one page at a time, under every answer of the endpoint. *)
SearchEnter ==
    /\ \E query \in DefaultQueries : youtube_search_enter(query)
    /\ UNCHANGED <<rotatorVars, storeVars, given, call, detailVars, pinVars, watchVars>>

SearchPage ==
    /\ \E resp \in SearchResponses : youtube_search_page(resp)
    /\ UNCHANGED <<rotatorVars, storeVars, given, call, detailVars, pinVars, watchVars>>

NextSearch == SearchEnter \/ SearchPage

SpecSearch == Init /\ [][NextSearch]_vars

(* The while loop keeps running: a page is requested whenever the loop     *)
(* has not been left.                                                      *)
SpecSearchFair == SpecSearch /\ WF_vars(SearchPage)

(* The pure helpers, each applied once to any argument of its bounded set. *)
ParseDurationCall ==
    /\ call = NoCall
    /\ \E duration \in DurationArguments :
          call' = [fn |-> "parse_duration_iso8601", arg |-> duration,
                   ret |-> parse_duration_iso8601(duration)]
    /\ UNCHANGED <<rotatorVars, storeVars, given, searchVars, detailVars, pinVars, watchVars>>

NextDuration == ParseDurationCall

SpecDuration == Init /\ [][NextDuration]_vars

SentimentCall ==
    /\ call = NoCall
    /\ \E likes \in 0..MaxLikes, comments \in 0..MaxComments :
          call' = [fn |-> "simulate_sentiment_analysis", arg |-> <<likes, comments>>,
                   ret |-> simulate_sentiment_analysis(likes, comments)]
    /\ UNCHANGED <<rotatorVars, storeVars, given, searchVars, detailVars, pinVars, watchVars>>

NextSentiment == SentimentCall

SpecSentiment == Init /\ [][NextSentiment]_vars

EnsureSqlUtcStringCall ==
    /\ call = NoCall
    /\ \E val \in TimestampArguments, now \in Instants :
          call' = [fn |-> "ensure_sql_utc_string", arg |-> val, now |-> now,
                   ret |-> ensure_sql_utc_string(val, now)]
    /\ UNCHANGED <<rotatorVars, storeVars, given, searchVars, detailVars, pinVars, watchVars>>

NextEnsure == EnsureSqlUtcStringCall

SpecEnsure == Init /\ [][NextEnsure]_vars

(* get_video_details on any list of VideoObjs, under every answer of the   *)
(* videos endpoint to each batch.                                          *)
GetVideoDetailsCall ==
    /\ \E objs \in VideoObjs :
          \E answers \in [1..Len(chunked(objs, ChunkSize)) -> DetailAnswers] :
              get_video_details(objs, answers)
    /\ UNCHANGED <<rotatorVars, storeVars, given, searchVars, call, pinVars, watchVars>>

NextDetails == GetVideoDetailsCall

SpecDetails == Init /\ [][NextDetails]_vars

(* The pinned list under every sequence of edits of the Pinned Video       *)
(* inputs and of Pin and Unpin clicks.                                     *)
EditPinnedInput ==
    /\ \E i \in 1..MaxPinnedInputs, text \in PinTexts : edit_pinned_input(i, text)
    /\ UNCHANGED <<rotatorVars, storeVars, given, searchVars, call, detailVars, watchVars>>

ClickPin ==
    /\ \E video_id \in VideoIds : click_pin(video_id)
    /\ UNCHANGED <<rotatorVars, storeVars, given, searchVars, call, detailVars, watchVars>>

ClickUnpin ==
    /\ \E video_id \in VideoIds : click_unpin(video_id)
    /\ UNCHANGED <<rotatorVars, storeVars, given, searchVars, call, detailVars, watchVars>>

NextPins == EditPinnedInput \/ ClickPin \/ ClickUnpin

SpecPins == Init /\ [][NextPins]_vars

(* The watch list under session starts with any watchlist file and every   *)
(* sequence of Add and Remove clicks.                                      *)
LoadWatchlist ==
    /\ \E file \in WatchlistFiles : load_watchlist(file)
    /\ UNCHANGED <<rotatorVars, storeVars, given, searchVars, call, detailVars, pinVars>>

ClickAddToWatchlist ==
    /\ \E channel_id \in ChannelIds : click_add_to_watchlist(channel_id)
    /\ UNCHANGED <<rotatorVars, storeVars, given, searchVars, call, detailVars, pinVars>>

ClickRemoveFromWatchlist ==
    /\ \E channel_id \in ChannelIds : click_remove_from_watchlist(channel_id)
    /\ UNCHANGED <<rotatorVars, storeVars, given, searchVars, call, detailVars, pinVars>>

NextWatchlist == LoadWatchlist \/ ClickAddToWatchlist \/ ClickRemoveFromWatchlist

SpecWatchlist == Init /\ [][NextWatchlist]_vars

-----------------------------------------------------------------------------
(* Properties of the credential rotator *)

Called == tr_pattern # <<>>

Succeeds(o) == o.kind = "http" /\ o.status = 200

SuccessPositions == {i \in 1..Len(tr_pattern) : Succeeds(tr_pattern[i])}

Min(S) == CHOOSE x \in S : \A y \in S : x <= y

Forbidden == [kind |-> "http", status |-> 403]

(* C1: try_request attempts the credentials in configured order from the   *)
(* first, and returns the response of the first credential that yields     *)
(* 200 without attempting a later one; with outcomes 403, 403, 200 it      *)
(* makes exactly 3 attempts in order and returns the 200 response.         *)
C1_AttemptsInOrderStopAtFirstSuccess ==
    Called =>
        /\ tr_log = SubSeq(API_KEYS, 1, Len(tr_log))
        /\ Len(tr_log) >= 1
        /\ \A i \in 1..(Len(tr_log) - 1) : ~Succeeds(tr_pattern[i])
        /\ SuccessPositions # {} =>
               /\ Len(tr_log) = Min(SuccessPositions)
               /\ tr_return = HttpResponse(API_KEYS[Len(tr_log)], 200)
        /\ (/\ tr_pattern[1] = Forbidden
            /\ tr_pattern[2] = Forbidden
            /\ Succeeds(tr_pattern[3])) =>
               /\ tr_log = <<API_KEYS[1], API_KEYS[2], API_KEYS[3]>>
               /\ tr_return = HttpResponse(API_KEYS[3], 200)

C1_Witness ==
    /\ Called
    /\ tr_pattern[1] = Forbidden
    /\ tr_pattern[2] = Forbidden
    /\ Succeeds(tr_pattern[3])
    /\ Len(tr_log) = 3
    /\ tr_return.status_code = 200

LastKey == API_KEYS[Len(API_KEYS)]

LastOutcome == tr_pattern[Len(API_KEYS)]

(* C2: when no credential yields 200, try_request makes exactly one        *)
(* attempt per credential and returns the failure of the last credential   *)
(* attempted: its HTTP response, or the synthesized status 500 descriptor  *)
(* when that attempt raised; the caller always receives a successful       *)
(* response or a structured failure descriptor.                            *)
C2_ReturnsLastFailure ==
    Called =>
        /\ SuccessPositions = {} =>
               /\ tr_log = API_KEYS
               /\ LastOutcome.kind = "http" =>
                      tr_return = HttpResponse(LastKey, LastOutcome.status)
               /\ LastOutcome.kind = "RequestException" =>
                      /\ tr_return.status_code = 500
                      /\ tr_return.reason = "Request Exception"
                      /\ tr_return.content = LastKey
        /\ tr_return # NoResponse
        /\ (tr_return.status_code = 200) = (SuccessPositions # {})

C2_Witness ==
    /\ Called
    /\ SuccessPositions = {}
    /\ tr_pattern[1] = Forbidden
    /\ LastOutcome.kind = "RequestException"
    /\ Len(tr_log) = Len(API_KEYS)
    /\ tr_return = SynthesizedResponse(LastKey)

-----------------------------------------------------------------------------
(* Properties of the store *)

Ids(table) == {row.videoId : row \in table}

RowsOf(table, v) == {row \in table : row.videoId = v}

RowOf(table, v) == CHOOSE row \in table : row.videoId = v

BatchIds(rs) == {rs[i].videoId : i \in 1..Len(rs)}

(* The step is a db_upsert_videos call that committed. *)
UpsertCommits == pc = "idle" /\ pc' = "returned" /\ result' = "committed"

UpsertReturned == pc = "returned" /\ result = "committed"

(* C3: the table holds at most one row per videoId, and upserting records  *)
(* whose videoId is already stored updates rows and never adds a second    *)
(* row for the same ID: the number of rows grows by the new IDs only.      *)
C3_OneRowPerVideoId ==
    [][/\ \A v \in Ids(videos') : Cardinality(RowsOf(videos', v)) = 1
       /\ UpsertCommits =>
              /\ Ids(videos') = Ids(videos) \cup BatchIds(rows')
              /\ Cardinality(videos') =
                     Cardinality(Ids(videos) \cup BatchIds(rows'))
              /\ BatchIds(rows') \subseteq Ids(videos) =>
                     Cardinality(videos') = Cardinality(videos)]_vars

C3_Witness ==
    /\ UpsertReturned
    /\ Len(rows) = 1
    /\ trace = <<<<"UPDATE", rows[1].videoId>>>>
    /\ Cardinality(videos) = 3
    /\ Cardinality(Ids(videos)) = 3

-----------------------------------------------------------------------------
(* The step is a db_upsert_videos call that committed the one record r    *)
(* for a videoId that was stored before the call.                          *)
UpdatesStored(r) ==
    /\ UpsertCommits
    /\ rows' = <<r>>
    /\ r.videoId \in Ids(videos)

SerialsBefore(i) ==
    {row.serial : row \in videos}
        \cup {RowOf(videos', rows'[j].videoId).serial :
                 j \in {k \in 1..(i - 1) : rows'[k].videoId \notin Ids(videos)}}

MaxOrZero(S) == IF S = {} THEN 0 ELSE Max(S)

(* C4: a serial is assigned to a row exactly once and is never reused or   *)
(* reassigned: a stored row's serial never changes, and a serial once      *)
(* given to some videoId is never later given to a different videoId.      *)
C4_SerialNeverReused ==
    [][/\ \A a \in videos, b \in videos' :
              a.videoId = b.videoId => a.serial = b.serial
       /\ \A row \in videos', g \in given' :
              g[1] = row.serial => g[2] = row.videoId]_vars

(* C5: a record whose videoId is not yet stored is inserted with the       *)
(* largest serial in the table immediately before that insert plus 1 (1    *)
(* on an empty table), also after inserts of the same batch; new IDs       *)
(* [A,B,C] into an empty store get serials 1,2,3 in batch order.           *)
C5_SerialIsPreviousMaxPlusOne ==
    [][UpsertCommits =>
          /\ \A i \in 1..Len(rows') :
                 rows'[i].videoId \notin Ids(videos) =>
                     RowOf(videos', rows'[i].videoId).serial =
                         MaxOrZero(SerialsBefore(i)) + 1
          /\ (videos = {} /\ Len(rows') = 3 /\ Cardinality(BatchIds(rows')) = 3) =>
                 \A i \in 1..3 : RowOf(videos', rows'[i].videoId).serial = i]_vars

C5_Witness ==
    /\ UpsertReturned
    /\ Len(rows) = 3
    /\ trace = [i \in 1..3 |-> <<"INSERT", rows[i].videoId>>]
    /\ \A i \in 1..3 : RowOf(videos, rows[i].videoId).serial = i
    /\ rows[1].videoId > rows[2].videoId

(* C6: upserting a record whose videoId is already stored leaves the       *)
(* row's serial and firstSeenSource as they were, whatever the record      *)
(* carries, while views, likes and comments take the incoming values.      *)
C6_UpdateKeepsSerialAndFirstSeenSource ==
    [][\A r \in ProvenanceRecords :
          UpdatesStored(r) =>
              LET old == RowOf(videos, r.videoId)
                  new == RowOf(videos', r.videoId)
              IN  /\ new.serial = old.serial
                  /\ new.firstSeenSource = old.firstSeenSource
                  /\ new.views = r.views
                  /\ new.likes = r.likes
                  /\ new.comments = r.comments]_vars

C6_Witness ==
    /\ UpsertReturned
    /\ Len(rows) = 1
    /\ trace = <<<<"UPDATE", rows[1].videoId>>>>
    /\ rows[1].sourceKeyword = "#cisf"
    /\ rows[1].views = 3
    /\ LET row == RowOf(videos, rows[1].videoId)
       IN  /\ row.firstSeenSource = "CISF"
           /\ row.serial = 2
           /\ row.views = 3 /\ row.likes = 2 /\ row.comments = 1

(* C7: once a row has a non-null sourceKeyword no later upsert of the      *)
(* same videoId changes it, neither one whose sourceKeyword is null or     *)
(* absent nor one carrying a different non-null keyword.                   *)
C7_SourceKeywordSticky ==
    [][\A r \in ProvenanceRecords :
          (UpdatesStored(r) /\ RowOf(videos, r.videoId).sourceKeyword # NoneValue)
              => RowOf(videos', r.videoId).sourceKeyword =
                     RowOf(videos, r.videoId).sourceKeyword]_vars

C7_Witness ==
    /\ UpsertReturned
    /\ Len(rows) = 1
    /\ trace = <<<<"UPDATE", rows[1].videoId>>>>
    /\ rows[1].sourceKeyword = "#cisf"
    /\ RowOf(videos, rows[1].videoId).sourceKeyword = "CISF"
    /\ RowOf(videos, rows[1].videoId).firstSeenSource = "pull"

(* C8: every row's publishedAt is held in the normalized UTC text form     *)
(* 'YYYY-MM-DD HH:MM:SS', whether the record carried a datetime or a       *)
(* string, the API's RFC3339 string included.                              *)
C8_PublishedAtNormalized ==
    \A row \in videos :
        row.publishedAt.kind = "str" /\ row.publishedAt.fmt = "sql"

(* C9: publishedAt is immutable after the first write: a later upsert of   *)
(* the same videoId carrying a different publishedAt leaves it unchanged.  *)
C9_PublishedAtImmutable ==
    [][\A a \in videos, b \in videos' :
          a.videoId = b.videoId => a.publishedAt = b.publishedAt]_vars

(* C10: an inserted row has firstSeenSource set to the record's            *)
(* provenance tag when it has one and to 'pull' when its keyword is        *)
(* absent or null; firstSeenSource is never stored as null.                *)
C10_FirstSeenSourceDefaultsToPull ==
    [][\A r \in ProvenanceRecords :
          (UpsertCommits /\ rows' = <<r>> /\ r.videoId \notin Ids(videos)) =>
              RowOf(videos', r.videoId).firstSeenSource =
                  IF r.sourceKeyword \in {Absent, NoneValue}
                  THEN "pull"
                  ELSE r.sourceKeyword]_vars

-----------------------------------------------------------------------------
(* Properties of youtube_search *)

(* The video items of a page, tagged with the query, in the page's order. *)
PageVideoIds(page, query) ==
    LET vs == SelectSeq(page.data.items, LAMBDA it : it.kind = "youtube#video")
    IN  [i \in 1..Len(vs) |-> [videoId |-> vs[i].videoId, sourceKeyword |-> query]]

(* A page is read successfully when one of the keys is answered with 200. *)
PageSucceeded(page) ==
    \E i \in 1..Len(page.pattern) : page.pattern[i].status = 200

(* C11, as stated: youtube_search never holds more than one page's worth   *)
(* (MaxResults = 50) of IDs, whatever pages of at most 50 items and        *)
(* whatever next-page tokens the endpoint returns.                         *)
C11_AtMostOnePageOfIds == Len(ids_with_keyword) <= MaxResults

(* C11, amended: youtube_search requests a further page only while fewer   *)
(* than 50 IDs are accumulated, so it returns fewer than 2 * 50 IDs: at    *)
(* most 49 from the pages before the last one read and at most 50 from     *)
(* the last.                                                               *)
C11_FewerThanTwoPagesOfIds ==
    /\ ys_pc = "loop" => Len(ids_with_keyword) < MaxResults
    /\ Len(ids_with_keyword) < 2 * MaxResults

(* A search that returned 49 + 50 IDs. *)
C11_Witness ==
    /\ ys_pc = "done"
    /\ Len(ids_with_keyword) = 2 * MaxResults - 1

(* C12: each iteration of youtube_search appends exactly the video IDs of  *)
(* the page it read, in the page's order and tagged with the query; a      *)
(* failing page appends nothing, is reported and ends the search with the  *)
(* IDs accumulated so far; a first page of 10 videos without a next-page   *)
(* token ends the search after exactly one call with 10 tagged IDs.        *)
C12_ReturnsIdsOfPagesReadInOrder ==
    [][ys_pc = "loop" =>
         /\ IF PageSucceeded(ys_page')
            THEN /\ ids_with_keyword' =
                        ids_with_keyword \o PageVideoIds(ys_page', ys_query)
                 /\ ys_error' = ys_error
            ELSE /\ ids_with_keyword' = ids_with_keyword
                 /\ ys_error'
                 /\ ys_pc' = "done"
         /\ ( /\ ys_calls = 0
              /\ PageSucceeded(ys_page')
              /\ Len(PageVideoIds(ys_page', ys_query)) = 10
              /\ ys_page'.data.nextPageToken = NoneValue )
            => /\ ys_pc' = "done"
               /\ ys_calls' = 1
               /\ Len(ids_with_keyword') = 10
               /\ \A i \in 1..10 : ids_with_keyword'[i].sourceKeyword = ys_query
               /\ ~ys_error'
      ]_vars

(* A search whose second page failed after a first page of 10 videos. *)
C12_Witness ==
    /\ ys_pc = "done"
    /\ ys_error
    /\ ys_calls = 2
    /\ Len(ids_with_keyword) = 10
    /\ ~PageSucceeded(ys_page)

(* C19: a search that entered its loop leaves it, whatever the endpoint    *)
(* answers, pages with a next-page token and no video items included.      *)
C19_SearchTerminates == (ys_pc = "loop") ~> (ys_pc = "done")

-----------------------------------------------------------------------------
(* Properties of the pure helpers *)

(* t is [nX]: empty, or one or more digits followed by the unit. *)
IsComponent(t, unit) ==
    \/ t = <<>>
    \/ /\ Len(t) >= 2
       /\ t[Len(t)] = unit
       /\ \A i \in 1..(Len(t) - 1) : IsDigit(t[i])

ComponentValue(t) ==
    IF t = <<>> THEN 0 ELSE IntOfDigits(SubSeq(t, 1, Len(t) - 1))

(* The ways to cut text after "PT" into an H, an M and an S component. *)
Decompositions(text) ==
    {cut \in (2..Len(text)) \X (2..Len(text)) :
        /\ cut[1] <= cut[2]
        /\ IsComponent(SubSeq(text, 3, cut[1]), "H")
        /\ IsComponent(SubSeq(text, cut[1] + 1, cut[2]), "M")
        /\ IsComponent(SubSeq(text, cut[2] + 1, Len(text)), "S")}

(* text is of the form PT[nH][nM][nS]. *)
IsDurationCode(text) ==
    /\ text # NoneStr
    /\ Len(text) >= 2
    /\ text[1] = "P"
    /\ text[2] = "T"
    /\ Decompositions(text) # {}

DurationSeconds(text) ==
    LET cut == CHOOSE c \in Decompositions(text) : TRUE
    IN  3600 * ComponentValue(SubSeq(text, 3, cut[1]))
        + 60 * ComponentValue(SubSeq(text, cut[1] + 1, cut[2]))
        + ComponentValue(SubSeq(text, cut[2] + 1, Len(text)))

(* C15: parse_duration_iso8601 returns 3600h + 60m + s for every code of   *)
(* the form PT[nH][nM][nS] and 0 for every other argument: None, the empty *)
(* string, day or week components, components out of order, fractional or  *)
(* signed numbers, and any other text.                                     *)
C15_SecondsOfCodeElseZero ==
    call.fn = "parse_duration_iso8601" =>
        call.ret = IF IsDurationCode(call.arg) THEN DurationSeconds(call.arg) ELSE 0

(* C16: simulate_sentiment_analysis is Neutral for 0 likes and 0 comments, *)
(* otherwise Positive exactly when likes > 10 * (comments + 1), Negative   *)
(* exactly when likes < comments + 1, and Neutral in between;              *)
(* (0,0) is Neutral, (100,1) Positive, (1,10) Negative.                    *)
C16_SentimentByLikesPerComment ==
    call.fn = "simulate_sentiment_analysis" =>
        LET likes == call.arg[1]
            comments == call.arg[2]
        IN  /\ (likes = 0 /\ comments = 0) => call.ret = "Neutral"
            /\ ~(likes = 0 /\ comments = 0) =>
                  /\ call.ret = "Positive" <=> likes > 10 * (comments + 1)
                  /\ call.ret = "Negative" <=> likes < comments + 1
                  /\ call.ret = "Neutral" <=>
                        (likes <= 10 * (comments + 1) /\ likes >= comments + 1)
            /\ call.arg = <<0, 0>> => call.ret = "Neutral"
            /\ call.arg = <<100, 1>> => call.ret = "Positive"
            /\ call.arg = <<1, 10>> => call.ret = "Negative"

(* 20 likes on 1 comment: the quotient is exactly 10, which is Neutral. *)
C16_Witness ==
    /\ call.fn = "simulate_sentiment_analysis"
    /\ call.arg = <<20, 1>>
    /\ call.ret = "Neutral"

(* C17: ensure_sql_utc_string applied to its own result returns that       *)
(* result, at whatever time it is applied again, for every datetime and    *)
(* every string already in the SQL UTC format.                             *)
C17_EnsureSqlUtcStringIdempotent ==
    ( /\ call.fn = "ensure_sql_utc_string"
      /\ \/ call.arg.kind = "datetime"
         \/ call.arg.kind = "str" /\ call.arg.fmt = "sql" )
    => \A again \in Instants : ensure_sql_utc_string(call.ret, again) = call.ret

(* An IST datetime was normalised to the UTC string of the same instant. *)
C17_Witness ==
    /\ call.fn = "ensure_sql_utc_string"
    /\ call.arg = Datetime(IstOffset + 1, IstOffset)
    /\ call.ret = Str("sql", 1)

-----------------------------------------------------------------------------
(* Properties of get_video_details *)

BatchCount(n) == (n + ChunkSize - 1) \div ChunkSize

(* The k-th run of at most ChunkSize consecutive ids. *)
ExpectedBatch(ids, k) ==
    SubSeq(ids, ChunkSize * (k - 1) + 1,
           IF ChunkSize * k < Len(ids) THEN ChunkSize * k ELSE Len(ids))

AnswerSucceeded(answer) ==
    \E i \in 1..Len(answer.pattern) : answer.pattern[i].status = 200

(* The mapped items of the successful batches from the k-th on. *)
RECURSIVE ExpectedResultsFrom(_, _)
ExpectedResultsFrom(k, source_keywords) ==
    IF k > Len(gvd_requests) THEN <<>>
    ELSE LET items == DetailItems(gvd_requests[k], gvd_answers[k])
         IN  (IF AnswerSucceeded(gvd_answers[k])
              THEN [i \in 1..Len(items) |-> MapItem(items[i], source_keywords)]
              ELSE <<>>)
             \o ExpectedResultsFrom(k + 1, source_keywords)

(* C13: get_video_details requests the input ids in consecutive batches   *)
(* of at most 50, in order, with one rotator call per batch; the batches   *)
(* reported as failed are exactly those whose call did not succeed, every  *)
(* later batch is still requested, and the result is the mapped items of   *)
(* the successful batches in batch order.                                  *)
C13_BatchesOfFiftySkipFailures ==
    gvd_pc = "returned" =>
        LET video_ids == [i \in 1..Len(video_objs) |-> video_objs[i].videoId]
            failed == {k \in 1..Len(gvd_requests) : ~AnswerSucceeded(gvd_answers[k])}
        IN  /\ Len(gvd_requests) = BatchCount(Len(video_ids))
            /\ \A k \in 1..Len(gvd_requests) :
                  /\ gvd_requests[k] = ExpectedBatch(video_ids, k)
                  /\ Len(gvd_requests[k]) \in 1..ChunkSize
            /\ {gvd_errors[i] : i \in 1..Len(gvd_errors)} = failed
            /\ Len(gvd_errors) = Cardinality(failed)
            /\ \A source_keywords \in {SourceKeywords(video_objs)} :
                  results = ExpectedResultsFrom(1, source_keywords)

(* 101 ids: the second of three batches failed and the third was mapped. *)
C13_Witness ==
    /\ gvd_pc = "returned"
    /\ Len(video_objs) = 2 * ChunkSize + 1
    /\ Len(gvd_requests) = 3
    /\ gvd_errors = <<2>>
    /\ Len(results) = ChunkSize + 1
    /\ results[1].videoId = 1
    /\ results[ChunkSize + 1].videoId = 2 * ChunkSize + 1

-----------------------------------------------------------------------------
(* Properties of the row lifecycle *)

(* C14: no step of the application removes a stored row: not the start of  *)
(* a session, not a page rerun, not Quick Update; a row ingested in one    *)
(* session is still stored when another session starts.  (The source has   *)
(* no bulk-clear control and no age-based pruning, the two steps the       *)
(* statement allows to delete.)                                            *)
C14_RowsSurviveEveryStep ==
    [][\A row \in videos : \E kept \in videos' : kept.videoId = row.videoId]_vars

(* The table after upserting the records of rs one call at a time. *)
RECURSIVE OneAtATime(_, _, _)
OneAtATime(table, rs, now) ==
    IF rs = <<>> THEN table
    ELSE OneAtATime(DbUpsertVideos(table, <<Head(rs)>>, now).table, Tail(rs), now)

(* C18: one db_upsert_videos call on a batch, whatever mix of new and      *)
(* stored videoIds it holds and in whatever order, a videoId that is not   *)
(* stored yet occurring twice included, completes without error and leaves *)
(* the table as upserting its records one at a time in the same order      *)
(* does.                                                                   *)
C18_BatchEqualsOneAtATime ==
    [][(pc = "idle" /\ pc' = "returned" /\ result' # "started") =>
          /\ result' = "committed"
          /\ videos' = OneAtATime(videos, rows', 1)]_vars

-----------------------------------------------------------------------------
(* Properties of the pinned list *)

(* The step is a click on the Unpin button of video v. *)
UnpinClicked(v) ==
    /\ v \in pinned_video_ids
    /\ last_click' = [button |-> "Unpin", videoId |-> v]

(* The step pins v: its Pin button is clicked, or an input is edited to a  *)
(* URL or ID of v.                                                         *)
PinnedAgain(v) ==
    \/ last_click' = [button |-> "Pin", videoId |-> v]
    \/ last_click' = [button |-> "input", videoId |-> v]

(* C20: after a click on Unpin in the Pinned view the videoId is absent    *)
(* from pinned_video_ids at the next render, and an absent videoId stays   *)
(* absent until it is pinned again, whether it had been pinned through a   *)
(* card's Pin button or through a URL or ID typed into a Pinned Video      *)
(* input.                                                                  *)
C20_UnpinRemovesUntilPinnedAgain ==
    [][\A v \in VideoIds :
          /\ UnpinClicked(v) => v \notin pinned_video_ids'
          /\ (v \notin pinned_video_ids /\ v \in pinned_video_ids') => PinnedAgain(v)
      ]_vars

-----------------------------------------------------------------------------
(* Properties of the watch list *)

(* The step is a click on the Remove button of channel c, which the Watch  *)
(* List tab showed.                                                        *)
RemoveClicked(c) ==
    /\ c \in WatchlistIds(watchlist_inputs)
    /\ watch_click' = [button |-> "Remove", channelId |-> c]

(* The non-empty entries that do not stand for channel c. *)
EntriesOfOthers(entries, c) ==
    SelectSeq(entries, LAMBDA e : e # EmptyEntry /\ WatchlistId(e) # c)

(* C21: after a click on Remove in the Watch List tab the channel is in    *)
(* the watch list no longer, neither in watchlist_inputs nor in the        *)
(* rewritten file, whether its entry was a bare channel ID, a URL          *)
(* containing the ID or an @handle resolved to the ID; the entries of      *)
(* other channels are left as they were.                                   *)
C21_RemoveDropsChannelOnly ==
    [][\A c \in ChannelIds :
          RemoveClicked(c) =>
              /\ c \notin WatchlistIds(watchlist_inputs')
              /\ c \notin WatchlistIds(watchlist_file')
              /\ EntriesOfOthers(watchlist_inputs', c) = EntriesOfOthers(watchlist_inputs, c)
              /\ EntriesOfOthers(watchlist_file', c) = EntriesOfOthers(watchlist_inputs, c)
      ]_vars

=============================================================================
